---- MODULE Spec2Model ----
(***************************************************************************)
(* The widget-action and client-tool dispatch bridge of the-quizzler:      *)
(* the ChatKitPanel component (src/components/ChatKitPanel.tsx) and the    *)
(* configuration helper getThemeConfig (src/app/layout.tsx).               *)
(*                                                                         *)
(* The SDK is the environment: it delivers action, tool-invocation, error, *)
(* log and response-end events to the handlers the component registers,    *)
(* and it settles the sendCustomAction promises the action router awaits.  *)
(* Each handler is one action.  `last` records what the most recent        *)
(* handler run was given and what it did (its console output, the calls it *)
(* made, the promise it returned), so that a handler's contract is a state *)
(* predicate.                                                              *)
(***************************************************************************)
EXTENDS Integers, Sequences, FiniteSets, TLC

VARIABLES
    chatkitRef,     \* chatkitRef.current: "null" or "chatkit"
    error,          \* the useState error value: JsNull or a string value
    theme,          \* the theme prop, owned by the host page
    options,        \* the theme options handed to useChatKit at the last render
    isDev,          \* process.env.NODE_ENV !== "production"
    nSent,          \* number of chatkit.sendCustomAction calls made so far
    inflight,       \* the sendCustomAction calls whose promise a router run awaits
    lastErrInst,    \* payload of the most recent error event that was an Error
    nEligible,      \* whitelisted actions received while the handle was stored
    twin,           \* the same events handled by the build with the other isDev
    last            \* the most recent step: its input, the state before, its effects

vars == <<chatkitRef, error, theme, options, isDev, nSent, inflight,
          lastErrInst, nEligible, twin, last>>

----------------------------------------------------------------------------
(* Bounds of the model. *)

\* sendCustomAction calls made in one behaviour
MaxSent == 2

----------------------------------------------------------------------------
(* JavaScript values of type unknown: a type tag and a printable value. *)

Str(s) == [type |-> "string", val |-> s]
Num(s) == [type |-> "number", val |-> s]
Obj(s) == [type |-> "object", val |-> s]
ErrorObj(msg) == [type |-> "Error", val |-> msg]
Undefined == [type |-> "undefined", val |-> ""]
JsNull == [type |-> "null", val |-> ""]
NoValue == [type |-> "none", val |-> ""]

\* a === b on primitives: same type and same value, no coercion
StrictEq(a, b) == a.type = b.type /\ a.val = b.val

\* obj[key] on a Record<string, unknown>: undefined when the key is absent
GetProp(obj, key) == IF key \in DOMAIN obj THEN obj[key] ELSE Undefined

----------------------------------------------------------------------------
(* The inputs the SDK can deliver. *)

ColorSchemes == {"light", "dark"}

ToolNames == {"switch_theme", "set_theme"}

ThemeArgs == {Str("light"), Str("dark"), Str("blue"), Str("Dark"), Str(""),
              Num("1"), Undefined}

NoKeys == [k \in {} |-> Undefined]

\* params: Record<string, unknown>, with the theme key absent, alone, or
\* beside another key
ToolParams == {NoKeys}
              \cup {[k \in {"theme"} |-> v] : v \in ThemeArgs}
              \cup {[k \in {"scheme"} |-> Str("dark")]}

ToolInvocations == [name : ToolNames, params : ToolParams]

ActionTypes == {"quiz.submit", "quiz.reset", "quiz.unknown", ""}

\* { type: string; payload?: Record<string, unknown> }
Actions == {[type |-> "quiz.submit", payload |-> Obj("answers:1,2,3")],
            [type |-> "quiz.reset", payload |-> Undefined],
            [type |-> "quiz.unknown", payload |-> Obj("answers:1,2,3")],
            [type |-> "", payload |-> Undefined]}

WidgetItems == {[id |-> "w1", widget |-> "Card"],
                [id |-> "w2", widget |-> "ListView"]}

ErrorPayloads == {ErrorObj("boom"), ErrorObj("timeout"), ErrorObj(""),
                  Str("late"), Undefined}

LogEvents == {[name |-> "composer.submit", data |-> Undefined],
              [name |-> "thread.change", data |-> Obj("threadId:t1")]}

----------------------------------------------------------------------------
(* A handler run: what it logged, which calls it made, what it returned. *)

Entry(level, text, arg) == [level |-> level, text |-> text, arg |-> arg]

\* a promise the run returned: fulfilled with a value, rejected, or pending
Fulfilled(v) == [state |-> "fulfilled", value |-> v]
Rejected(v) == [state |-> "rejected", value |-> v]
Pending == [state |-> "pending", value |-> Undefined]

ToolResult(b) == [type |-> "ToolResult", val |-> IF b THEN "true" ELSE "false"]

\* the calls a run made: onThemeRequest(scheme), chatkit.sendCustomAction(action,
\* id), setError(message), onResponseEnd(); endCalls holds the argument list
\* of each onResponseEnd call
Effects(log, themeCalls, sendCalls, setErrorCalls, endCalls, result) ==
    [log |-> log, themeCalls |-> themeCalls, sendCalls |-> sendCalls,
     setErrorCalls |-> setErrorCalls, endCalls |-> endCalls, result |-> result]

NoItem == [id |-> "", widget |-> ""]

----------------------------------------------------------------------------
(* lib/config: getThemeConfig, and the theme options of the useChatKit call. *)

getThemeConfig(t) ==
    [color |-> [grayscale |-> [hue |-> 220, tint |-> 6,
                               shade |-> IF t = "dark" THEN -1 ELSE -4],
                accent |-> [primary |-> IF t = "dark" THEN "#f1f5f9" ELSE "#0f172a",
                            level |-> 1]],
     radius |-> "round"]

\* theme: { colorScheme: theme, density: "spacious", ...getThemeConfig(theme) }
ThemeOptions(t) ==
    [colorScheme |-> t, density |-> "spacious",
     color |-> getThemeConfig(t).color, radius |-> getThemeConfig(t).radius]

----------------------------------------------------------------------------
(* handleWidgetAction *)

\* variant: every known quiz.* type is forwarded
IsForwardedType_AnyQuiz(type) == type \in {"quiz.submit", "quiz.reset", "quiz.unknown"}

\* action.type === "quiz.submit" || action.type === "quiz.reset"
IsForwardedType(type) == type = "quiz.submit" \/ type = "quiz.reset"

\* variant: only the action's type is forwarded, its payload is lost
SendCall_DropsPayload(action, widgetItem) ==
    [action |-> [type |-> action.type, payload |-> Undefined],
     itemId |-> widgetItem.id]

\* the call chatkit.sendCustomAction(action, widgetItem.id)
SendCall(action, widgetItem) == [action |-> action, itemId |-> widgetItem.id]

\* variant: no check of chatkitRef.current, so a forwarded type calls
\* sendCustomAction on null and the handler's promise rejects with a TypeError
handleWidgetAction_NoGuard(ref, action, widgetItem) ==
    LET received == Entry("log", "[ChatKitPanel] Widget action received:",
                          <<Str(action.type), action.payload>>)
    IN IF IsForwardedType(action.type)
       THEN Effects(<<received,
                      Entry("log", "[ChatKitPanel] Sending " \o action.type
                                   \o " to server", <<>>)>>,
                    <<>>,
                    IF ref = "null" THEN <<>> ELSE <<SendCall(action, widgetItem)>>,
                    <<>>, <<>>,
                    IF ref = "null" THEN Rejected(ErrorObj("TypeError")) ELSE Pending)
       ELSE Effects(<<received,
                      Entry("log", "[ChatKitPanel] Unhandled action type:",
                            <<Str(action.type)>>)>>,
                    <<>>, <<>>, <<>>, <<>>, Fulfilled(Undefined))

\* variant: a forward is skipped while an earlier one is still awaited
handleWidgetAction_DropsWhileBusy(ref, action, widgetItem) ==
    IF ref = "null"
    THEN Effects(<<Entry("warn", "ChatKit not initialized", <<>>)>>,
                 <<>>, <<>>, <<>>, <<>>, Fulfilled(Undefined))
    ELSE LET received == Entry("log", "[ChatKitPanel] Widget action received:",
                               <<Str(action.type), action.payload>>)
         IN IF IsForwardedType(action.type) /\ inflight = <<>>
            THEN Effects(<<received,
                           Entry("log", "[ChatKitPanel] Sending " \o action.type
                                        \o " to server", <<>>)>>,
                         <<>>, <<SendCall(action, widgetItem)>>, <<>>, <<>>, Pending)
            ELSE Effects(<<received,
                           Entry("log", "[ChatKitPanel] Unhandled action type:",
                                 <<Str(action.type)>>)>>,
                         <<>>, <<>>, <<>>, <<>>, Fulfilled(Undefined))

\* the handler up to its first suspension: ref is chatkitRef.current
handleWidgetAction(ref, action, widgetItem) ==
    IF ref = "null"
    THEN Effects(<<Entry("warn", "ChatKit not initialized", <<>>)>>,
                 <<>>, <<>>, <<>>, <<>>, Fulfilled(Undefined))
    ELSE LET received == Entry("log", "[ChatKitPanel] Widget action received:",
                               <<Str(action.type), action.payload>>)
         IN IF IsForwardedType(action.type)
            THEN Effects(<<received,
                           Entry("log", "[ChatKitPanel] Sending " \o action.type
                                        \o " to server", <<>>)>>,
                         <<>>, <<SendCall(action, widgetItem)>>, <<>>, <<>>, Pending)
            ELSE Effects(<<received,
                           Entry("log", "[ChatKitPanel] Unhandled action type:",
                                 <<Str(action.type)>>)>>,
                         <<>>, <<>>, <<>>, <<>>, Fulfilled(Undefined))

\* an action the router has to forward: its type is on the whitelist and the
\* handle is stored when it arrives
Eligible(ref, action) == ref # "null" /\ IsForwardedType(action.type)

\* the handler after `await chatkit.sendCustomAction(...)` settles: it returns
\* when the call fulfilled; when the call rejected the await throws, and with
\* no try/catch around it the handler's own promise rejects with that reason
resumeWidgetAction(settled) ==
    IF settled.state = "fulfilled"
    THEN Effects(<<>>, <<>>, <<>>, <<>>, <<>>, Fulfilled(Undefined))
    ELSE Effects(<<>>, <<>>, <<>>, <<>>, <<>>, Rejected(settled.value))

----------------------------------------------------------------------------
(* onClientTool *)

\* variant: requested === "dark" || requested === "dark"
IsColorScheme_OnlyDark(requested) == StrictEq(requested, Str("dark"))

\* variant: typeof requested === "string"
IsColorScheme_AnyString(requested) == requested.type = "string"

\* requested === "light" || requested === "dark"
IsColorScheme(requested) ==
    StrictEq(requested, Str("light")) \/ StrictEq(requested, Str("dark"))

\* variant: the tool name is not checked
onClientTool_NoNameCheck(dev, invocation) ==
    LET log == IF dev
               THEN <<Entry("log", "[ChatKitPanel] Client tool invocation:",
                            <<invocation>>)>>
               ELSE <<>>
        requested == GetProp(invocation.params, "theme")
    IN IF IsColorScheme(requested)
       THEN Effects(log, <<requested.val>>, <<>>, <<>>, <<>>,
                    Fulfilled(ToolResult(TRUE)))
       ELSE Effects(log, <<>>, <<>>, <<>>, <<>>, Fulfilled(ToolResult(FALSE)))

\* variant: an invalid theme throws instead of being declined
onClientTool_ThrowsOnInvalid(dev, invocation) ==
    LET log == IF dev
               THEN <<Entry("log", "[ChatKitPanel] Client tool invocation:",
                            <<invocation>>)>>
               ELSE <<>>
    IN IF invocation.name = "switch_theme"
       THEN LET requested == GetProp(invocation.params, "theme")
            IN IF IsColorScheme(requested)
               THEN Effects(log, <<requested.val>>, <<>>, <<>>, <<>>,
                            Fulfilled(ToolResult(TRUE)))
               ELSE Effects(log, <<>>, <<>>, <<>>, <<>>,
                            Rejected(ErrorObj("invalid theme")))
       ELSE Effects(log, <<>>, <<>>, <<>>, <<>>, Fulfilled(ToolResult(FALSE)))

\* variant: the return of the declining path sits inside the isDev block, so
\* a non-production build logs and declines every invocation
onClientTool_DevDeclines(dev, invocation) ==
    IF dev
    THEN Effects(<<Entry("log", "[ChatKitPanel] Client tool invocation:",
                         <<invocation>>)>>,
                 <<>>, <<>>, <<>>, <<>>, Fulfilled(ToolResult(FALSE)))
    ELSE IF invocation.name = "switch_theme"
            /\ IsColorScheme(GetProp(invocation.params, "theme"))
         THEN Effects(<<>>, <<GetProp(invocation.params, "theme").val>>,
                      <<>>, <<>>, <<>>, Fulfilled(ToolResult(TRUE)))
         ELSE Effects(<<>>, <<>>, <<>>, <<>>, <<>>, Fulfilled(ToolResult(FALSE)))

onClientTool(dev, invocation) ==
    LET log == IF dev
               THEN <<Entry("log", "[ChatKitPanel] Client tool invocation:",
                            <<invocation>>)>>
               ELSE <<>>
    IN IF invocation.name = "switch_theme"
       THEN LET requested == GetProp(invocation.params, "theme")
            IN IF IsColorScheme(requested)
               THEN Effects(log, <<requested.val>>, <<>>, <<>>, <<>>,
                            Fulfilled(ToolResult(TRUE)))
               ELSE Effects(log, <<>>, <<>>, <<>>, <<>>, Fulfilled(ToolResult(FALSE)))
       ELSE Effects(log, <<>>, <<>>, <<>>, <<>>, Fulfilled(ToolResult(FALSE)))

----------------------------------------------------------------------------
(* onResponseEnd, onError, onLog *)

\* variant: a finished turn also clears the error, setError(null)
onResponseEndHandler_ClearsError ==
    Effects(<<>>, <<>>, <<>>, <<JsNull>>, << <<>> >>, Fulfilled(Undefined))

\* variant: the notification is not passed on
onResponseEndHandler_Dropped ==
    Effects(<<>>, <<>>, <<>>, <<>>, <<>>, Fulfilled(Undefined))

onResponseEndHandler ==
    Effects(<<>>, <<>>, <<>>, <<>>, << <<>> >>, Fulfilled(Undefined))

\* err instanceof Error
IsErrorInstance(err) == err.type = "Error"

\* variant: the error is logged and never stored
onError_OnlyLogs(err) ==
    Effects(<<Entry("error", "[ChatKitPanel] Error:", <<err>>)>>,
            <<>>, <<>>, <<>>, <<>>, Fulfilled(Undefined))

onError(err) ==
    LET log == <<Entry("error", "[ChatKitPanel] Error:", <<err>>)>>
    IN IF IsErrorInstance(err)
       THEN Effects(log, <<>>, <<>>, <<Str(err.val)>>, <<>>, Fulfilled(Undefined))
       ELSE Effects(log, <<>>, <<>>, <<>>, <<>>, Fulfilled(Undefined))

\* data ?? {}
OrEmpty(data) == IF data.type \in {"undefined", "null"} THEN Obj("") ELSE data

onLog(dev, ev) ==
    IF dev
    THEN Effects(<<Entry("debug", "[chatkit]", <<Str(ev.name), OrEmpty(ev.data)>>)>>,
                 <<>>, <<>>, <<>>, <<>>, Fulfilled(Undefined))
    ELSE Effects(<<>>, <<>>, <<>>, <<>>, <<>>, Fulfilled(Undefined))

----------------------------------------------------------------------------
(* The host page: it owns the theme value and re-renders the panel. *)

\* the host's onThemeRequest(scheme) stores each requested scheme in turn
HostTheme(current, themeCalls) ==
    IF themeCalls = <<>> THEN current ELSE themeCalls[Len(themeCalls)]

Toggled(t) == IF t = "dark" THEN "light" ELSE "dark"

----------------------------------------------------------------------------
(* The state machine. *)

\* what the step that just ran was given, the state it started from and what
\* it did
Step(handler, arg, item, eff) ==
    [handler |-> handler, arg |-> arg, item |-> item, ref |-> chatkitRef,
     errorBefore |-> error, themeBefore |-> theme, sentBefore |-> nSent,
     log |-> eff.log, themeCalls |-> eff.themeCalls, sendCalls |-> eff.sendCalls,
     setErrorCalls |-> eff.setErrorCalls, endCalls |-> eff.endCalls,
     result |-> eff.result]

NoEffects == Effects(<<>>, <<>>, <<>>, <<>>, <<>>, Fulfilled(Undefined))

\* variant: setError(prev => prev ?? message), the first error sticks
ErrorAfter_KeepsFirst(current, setErrorCalls) ==
    IF setErrorCalls = <<>> \/ current # JsNull THEN current ELSE setErrorCalls[1]

\* setError(message): the state holds the last value set
ErrorAfter(current, setErrorCalls) ==
    IF setErrorCalls = <<>> THEN current ELSE setErrorCalls[Len(setErrorCalls)]

\* variant: the options of the first render are kept (a memo without deps)
Rendered_Stale(ref, opts, t) == opts

\* a rendered panel re-renders with the current theme prop: the useChatKit
\* call recomputes its theme options from it
Rendered(ref, opts, t) == IF ref = "null" THEN opts ELSE ThemeOptions(t)

\* seq without its i-th element
Without(seq, i) == SubSeq(seq, 1, i - 1) \o SubSeq(seq, i + 1, Len(seq))

\* the other build runs the same handler on its own state
TwinAfter(eff) ==
    [ref |-> twin.ref,
     error |-> ErrorAfter(twin.error, eff.setErrorCalls),
     theme |-> HostTheme(twin.theme, eff.themeCalls),
     nSent |-> twin.nSent + Len(eff.sendCalls),
     inflight |-> twin.inflight \o eff.sendCalls,
     log |-> eff.log, themeCalls |-> eff.themeCalls, sendCalls |-> eff.sendCalls,
     setErrorCalls |-> eff.setErrorCalls, endCalls |-> eff.endCalls,
     result |-> eff.result]

\* variant: storing an error also drops the session handle
Apply_ErrorTearsDown(handler, arg, item, eff) ==
    /\ nSent + Len(eff.sendCalls) <= MaxSent
    /\ error' = ErrorAfter(error, eff.setErrorCalls)
    /\ theme' = HostTheme(theme, eff.themeCalls)
    /\ options' = Rendered(chatkitRef, options, theme')
    /\ nSent' = nSent + Len(eff.sendCalls)
    /\ inflight' = inflight \o eff.sendCalls
    /\ last' = Step(handler, arg, item, eff)
    /\ chatkitRef' = IF eff.setErrorCalls = <<>> THEN chatkitRef ELSE "null"
    /\ UNCHANGED isDev

\* variant: the re-render after a theme request starts from an empty ref
Apply_ThemeChangeClearsRef(handler, arg, item, eff) ==
    /\ nSent + Len(eff.sendCalls) <= MaxSent
    /\ error' = ErrorAfter(error, eff.setErrorCalls)
    /\ theme' = HostTheme(theme, eff.themeCalls)
    /\ options' = Rendered(chatkitRef, options, theme')
    /\ nSent' = nSent + Len(eff.sendCalls)
    /\ inflight' = inflight \o eff.sendCalls
    /\ last' = Step(handler, arg, item, eff)
    /\ chatkitRef' = IF eff.themeCalls = <<>> THEN chatkitRef ELSE "null"
    /\ UNCHANGED isDev

\* a handler run takes effect: the state and the host page after it
Apply(handler, arg, item, eff) ==
    /\ nSent + Len(eff.sendCalls) <= MaxSent
    /\ error' = ErrorAfter(error, eff.setErrorCalls)
    /\ theme' = HostTheme(theme, eff.themeCalls)
    /\ options' = Rendered(chatkitRef, options, theme')
    /\ nSent' = nSent + Len(eff.sendCalls)
    /\ inflight' = inflight \o eff.sendCalls
    /\ last' = Step(handler, arg, item, eff)
    /\ UNCHANGED <<chatkitRef, isDev>>

Init ==
    /\ chatkitRef = "null"
    /\ error = JsNull
    /\ theme \in ColorSchemes
    /\ options = NoValue
    /\ isDev \in BOOLEAN
    /\ nSent = 0
    /\ inflight = <<>>
    /\ lastErrInst = NoValue
    /\ nEligible = 0
    /\ twin = [ref |-> "null", error |-> JsNull, theme |-> theme, nSent |-> 0,
               inflight |-> <<>>, log |-> <<>>, themeCalls |-> <<>>,
               sendCalls |-> <<>>, setErrorCalls |-> <<>>, endCalls |-> <<>>,
               result |-> Fulfilled(Undefined)]
    /\ last = [handler |-> "none", arg |-> NoValue, item |-> NoItem, ref |-> "null",
               errorBefore |-> JsNull, themeBefore |-> theme, sentBefore |-> 0,
               log |-> <<>>, themeCalls |-> <<>>, sendCalls |-> <<>>,
               setErrorCalls |-> <<>>, endCalls |-> <<>>,
               result |-> Fulfilled(Undefined)]

\* the component function runs for the first time: useChatKit builds the
\* session and chatkitRef.current = chatkit stores its handle
Mount ==
    /\ chatkitRef = "null"
    /\ chatkitRef' = "chatkit"
    /\ options' = ThemeOptions(theme)
    /\ last' = Step("render", NoValue, NoItem, NoEffects)
    /\ twin' = [TwinAfter(NoEffects) EXCEPT !.ref = "chatkit"]
    /\ UNCHANGED <<error, theme, isDev, nSent, inflight, lastErrInst, nEligible>>

\* the user toggles the scheme on the host page
UserToggle ==
    /\ theme' = Toggled(theme)
    /\ options' = Rendered(chatkitRef, options, theme')
    /\ last' = Step("toggle", NoValue, NoItem, NoEffects)
    /\ twin' = [TwinAfter(NoEffects) EXCEPT !.theme = Toggled(twin.theme)]
    /\ UNCHANGED <<chatkitRef, error, isDev, nSent, inflight, lastErrInst,
                   nEligible>>

\* widgets.onAction: the handler tests chatkitRef.current itself, so it may
\* run before the first render has stored the handle
WidgetAction ==
    \E action \in Actions, widgetItem \in WidgetItems :
        /\ Apply("onAction", action, widgetItem,
                 handleWidgetAction(chatkitRef, action, widgetItem))
        /\ twin' = TwinAfter(handleWidgetAction(twin.ref, action, widgetItem))
        /\ nEligible' = IF Eligible(chatkitRef, action)
                        THEN nEligible + 1 ELSE nEligible
        /\ nEligible' <= MaxSent
        /\ UNCHANGED lastErrInst

\* the SDK settles a sendCustomAction promise and the suspended handler resumes
SendSettled ==
    \E i \in DOMAIN inflight,
       settled \in {Fulfilled(Undefined), Rejected(ErrorObj("network"))} :
        /\ inflight' = Without(inflight, i)
        /\ last' = Step("onAction.resume", settled, NoItem,
                        resumeWidgetAction(settled))
        /\ twin' = [TwinAfter(resumeWidgetAction(settled)) EXCEPT
                        !.inflight = IF i \in DOMAIN twin.inflight
                                     THEN Without(twin.inflight, i)
                                     ELSE twin.inflight]
        /\ UNCHANGED <<chatkitRef, error, theme, options, isDev, nSent,
                       lastErrInst, nEligible>>

\* the session useChatKit built delivers the events below
ClientTool ==
    \E invocation \in ToolInvocations :
        /\ chatkitRef = "chatkit"
        /\ Apply("onClientTool", invocation, NoItem, onClientTool(isDev, invocation))
        /\ twin' = TwinAfter(onClientTool(~isDev, invocation))
        /\ UNCHANGED <<lastErrInst, nEligible>>

ResponseEnd ==
    /\ chatkitRef = "chatkit"
    /\ Apply("onResponseEnd", NoValue, NoItem, onResponseEndHandler)
    /\ twin' = TwinAfter(onResponseEndHandler)
    /\ UNCHANGED <<lastErrInst, nEligible>>

ErrorEvent ==
    \E err \in ErrorPayloads :
        /\ chatkitRef = "chatkit"
        /\ Apply("onError", err, NoItem, onError(err))
        /\ twin' = TwinAfter(onError(err))
        /\ lastErrInst' = IF err.type = "Error" THEN err ELSE lastErrInst
        /\ UNCHANGED nEligible

LogEvent ==
    \E ev \in LogEvents :
        /\ chatkitRef = "chatkit"
        /\ Apply("onLog", ev, NoItem, onLog(isDev, ev))
        /\ twin' = TwinAfter(onLog(~isDev, ev))
        /\ UNCHANGED <<lastErrInst, nEligible>>

Next ==
    \/ Mount
    \/ UserToggle
    \/ WidgetAction
    \/ SendSettled
    \/ ClientTool
    \/ ResponseEnd
    \/ ErrorEvent
    \/ LogEvent

Spec == Init /\ [][Next]_vars

\* the props the panel hands to ErrorOverlay
OverlayProps ==
    [error |-> error, fallbackMessage |-> JsNull, onRetry |-> JsNull,
     retryLabel |-> "Restart chat"]

----------------------------------------------------------------------------
(* The claims. *)

Whitelist == {"quiz.submit", "quiz.reset"}

\* the run was a tool invocation named switch_theme whose params.theme is v
SwitchThemeWith(v) ==
    /\ last.handler = "onClientTool"
    /\ last.arg.name = "switch_theme"
    /\ "theme" \in DOMAIN last.arg.params
    /\ last.arg.params["theme"] = v

\* the run left the error state, the theme and the forward count as they were
NoStateChange ==
    /\ error = last.errorBefore
    /\ theme = last.themeBefore
    /\ nSent = last.sentBefore
    /\ chatkitRef = last.ref

\* C1: a switch_theme invocation whose params.theme is "light" or "dark"
\* resolves to {success: true} and calls onThemeRequest exactly once, with
\* that value.
C1_ValidThemeSwitches ==
    \A scheme \in ColorSchemes :
        SwitchThemeWith(Str(scheme)) =>
            /\ last.result = Fulfilled(ToolResult(TRUE))
            /\ last.themeCalls = <<scheme>>

C1_Witness ==
    /\ SwitchThemeWith(Str("dark"))
    /\ last.result = Fulfilled(ToolResult(TRUE))
    /\ last.themeCalls = <<"dark">>

\* C2: a switch_theme invocation whose params.theme is absent or is anything
\* but the string "light" or the string "dark" resolves to {success: false}
\* and never calls onThemeRequest.
C2_InvalidThemeDeclined ==
    ( /\ last.handler = "onClientTool"
      /\ last.arg.name = "switch_theme"
      /\ \A scheme \in ColorSchemes : ~SwitchThemeWith(Str(scheme)) )
    => /\ last.result = Fulfilled(ToolResult(FALSE))
       /\ last.themeCalls = <<>>
       /\ theme = last.themeBefore

C2_Witness ==
    /\ SwitchThemeWith(Str("blue"))
    /\ last.result = Fulfilled(ToolResult(FALSE))
    /\ last.themeCalls = <<>>

\* C3: a tool invocation whose name is not switch_theme resolves to
\* {success: false} whatever its params, calls neither onThemeRequest nor
\* sendCustomAction nor setError, and leaves the error state unchanged.
C3_UnknownToolDeclined ==
    (last.handler = "onClientTool" /\ last.arg.name # "switch_theme")
    => /\ last.result = Fulfilled(ToolResult(FALSE))
       /\ last.themeCalls = <<>>
       /\ last.sendCalls = <<>>
       /\ last.setErrorCalls = <<>>
       /\ NoStateChange

C3_Witness ==
    /\ last.handler = "onClientTool"
    /\ last.arg.name = "set_theme"
    /\ last.arg.params = [k \in {"theme"} |-> Str("dark")]
    /\ last.result = Fulfilled(ToolResult(FALSE))

\* C4: an action of type quiz.submit or quiz.reset that arrives while the
\* session handle is initialized makes exactly one sendCustomAction call,
\* carrying that action and the widget item's id unchanged.
C4_WhitelistedForwardedOnce ==
    ( /\ last.handler = "onAction"
      /\ last.ref # "null"
      /\ last.arg.type \in Whitelist )
    => /\ last.sendCalls = <<[action |-> last.arg, itemId |-> last.item.id]>>
       /\ nSent = last.sentBefore + 1

C4_Witness ==
    /\ last.handler = "onAction"
    /\ last.ref = "chatkit"
    /\ last.arg = [type |-> "quiz.submit", payload |-> Obj("answers:1,2,3")]
    /\ last.item = [id |-> "w1", widget |-> "Card"]
    /\ Len(last.sendCalls) = 1
    /\ last.sendCalls[1].itemId = "w1"

\* some console entry of the run names the action's type
LogNamesType ==
    \E i \in DOMAIN last.log :
        \E j \in DOMAIN last.log[i].arg : last.log[i].arg[j] = Str(last.arg.type)

\* what C5 promises of a run
DroppedAndLogged ==
    /\ last.sendCalls = <<>>
    /\ last.result = Fulfilled(Undefined)
    /\ LogNamesType
    /\ last.themeCalls = <<>>
    /\ last.setErrorCalls = <<>>
    /\ NoStateChange

\* C5 as stated: every action whose type is outside the whitelist is not
\* forwarded, raises no error, is logged with its type, and changes neither
\* the error state nor the theme.
C5_Original ==
    (last.handler = "onAction" /\ last.arg.type \notin Whitelist)
    => DroppedAndLogged

\* C5, amended: the same, for an action that arrives while the session
\* handle is initialized (before that the only entry is the warning, which
\* does not name the type).
C5_UnknownTypeDropped ==
    ( /\ last.handler = "onAction"
      /\ last.ref # "null"
      /\ last.arg.type \notin Whitelist )
    => DroppedAndLogged

C5_Witness ==
    /\ last.handler = "onAction"
    /\ last.ref = "chatkit"
    /\ last.arg.type = "quiz.unknown"
    /\ Len(last.log) = 2
    /\ last.log[2] = Entry("log", "[ChatKitPanel] Unhandled action type:",
                           <<Str("quiz.unknown")>>)
    /\ last.sendCalls = <<>>

\* C6: when a sendCustomAction call rejects, the promise the action router
\* returned does not reject.
C6_RouterPromiseNeverRejects ==
    (last.handler = "onAction.resume" /\ last.arg.state = "rejected")
    => last.result.state = "fulfilled"

FromSessionReady == last.ref = "chatkit" /\ last.errorBefore = JsNull

\* C8 as stated: from SessionReady every error event, whatever its payload,
\* leaves a non-null error string in the error state.
C8_Original ==
    (last.handler = "onError" /\ FromSessionReady)
    => error # JsNull /\ error.type = "string"

\* C8, amended: from SessionReady an error event whose payload is an Error
\* instance stores that error's message in the error state (ErrorShown); an
\* event with any other payload is only logged and leaves the error state
\* null.
C8_ErrorInstanceShown ==
    (last.handler = "onError" /\ FromSessionReady)
    => IF last.arg.type = "Error"
       THEN error = Str(last.arg.val)
       ELSE error = JsNull

C8_Witness ==
    /\ last.handler = "onError"
    /\ FromSessionReady
    /\ last.arg = ErrorObj("boom")
    /\ error = Str("boom")

\* C9 as stated: after an error event the error surface is given the message
\* of that event.
C9_Original ==
    last.handler = "onError" => OverlayProps.error = Str(last.arg.val)

\* C9, amended: after any sequence of events the error surface is given,
\* verbatim, the message of the most recent error event whose payload was an
\* Error instance (null when there was none); an event with another payload
\* leaves the earlier message in place.
C9_MostRecentErrorInstanceShown ==
    /\ OverlayProps.fallbackMessage = JsNull
    /\ OverlayProps.error =
           IF lastErrInst = NoValue THEN JsNull ELSE Str(lastErrInst.val)

C9_Witness ==
    /\ last.handler = "onError"
    /\ last.errorBefore = Str("boom")
    /\ last.arg = ErrorObj("timeout")
    /\ OverlayProps.error = Str("timeout")

\* C10: an action that arrives while the session handle is not initialized
\* logs one warning and returns without error; whatever its type it makes no
\* forwarding call and changes no state.
C10_UninitializedNoOp ==
    (last.handler = "onAction" /\ last.ref = "null")
    => /\ last.log = <<Entry("warn", "ChatKit not initialized", <<>>)>>
       /\ last.result = Fulfilled(Undefined)
       /\ last.sendCalls = <<>>
       /\ last.themeCalls = <<>>
       /\ last.setErrorCalls = <<>>
       /\ NoStateChange
       /\ inflight = <<>>

C10_Witness ==
    /\ last.handler = "onAction"
    /\ last.ref = "null"
    /\ last.arg.type = "quiz.submit"
    /\ last.log = <<Entry("warn", "ChatKit not initialized", <<>>)>>
    /\ nSent = 0


\* C11: the error state has no auto-clear: no step of any kind (action,
\* forward settlement, tool invocation, log, response end, theme change,
\* error event) takes a non-null error state back to null; with onRetry
\* passed as null the error surface has no dismiss either.
C11_NoAutoClear ==
    /\ OverlayProps.onRetry = JsNull
    /\ last.errorBefore # JsNull => error # JsNull

C11_Witness ==
    /\ last.handler = "onResponseEnd"
    /\ last.errorBefore = Str("boom")
    /\ error = Str("boom")

\* ErrorShown: an error is stored when the step starts
InErrorShown == last.errorBefore # JsNull

\* C12: an error event does not tear down the session: whenever an error is
\* stored the handle is still stored, an action of a whitelisted type that
\* arrives in ErrorShown is forwarded exactly once, and a valid switch_theme
\* invocation that arrives in ErrorShown returns {success: true} and calls
\* onThemeRequest with the requested scheme.
C12_SessionSurvivesError ==
    /\ error # JsNull => chatkitRef = "chatkit"
    /\ ( /\ InErrorShown
         /\ last.handler = "onAction"
         /\ last.arg.type \in Whitelist )
       => /\ last.ref = "chatkit"
          /\ last.sendCalls = <<[action |-> last.arg, itemId |-> last.item.id]>>
          /\ nSent = last.sentBefore + 1
    /\ \A scheme \in ColorSchemes :
          (InErrorShown /\ SwitchThemeWith(Str(scheme)))
          => /\ last.result = Fulfilled(ToolResult(TRUE))
             /\ last.themeCalls = <<scheme>>

C12_Witness ==
    /\ InErrorShown
    /\ error = Str("timeout")
    /\ last.handler = "onAction"
    /\ last.arg.type = "quiz.reset"
    /\ last.item.id = "w2"
    /\ Len(last.sendCalls) = 1
    /\ last.sendCalls[1].itemId = "w2"

\* C13: after any sequence of theme changes, by onThemeRequest or by the
\* user's toggle, the theme options the panel builds use the current theme:
\* colorScheme is the theme, and the grayscale shade and the accent primary
\* are the ones getThemeConfig gives for it (-1 and #f1f5f9 for dark, -4 and
\* #0f172a for light).
C13_ConfigFollowsTheme ==
    chatkitRef = "chatkit"
    => /\ options.colorScheme = theme
       /\ options.color = getThemeConfig(theme).color
       /\ options.color.grayscale.shade = (IF theme = "dark" THEN -1 ELSE -4)
       /\ options.color.accent.primary =
              (IF theme = "dark" THEN "#f1f5f9" ELSE "#0f172a")

C13_Witness ==
    /\ last.handler = "onClientTool"
    /\ last.themeBefore = "light"
    /\ last.themeCalls = <<"dark">>
    /\ theme = "dark"
    /\ options.colorScheme = "dark"
    /\ options.color.grayscale.shade = -1

\* C14: onThemeRequest is called only by a switch_theme tool invocation and
\* only with "light" or "dark"; the action router (at entry and on resuming),
\* the error, log and response-end handlers never call it, and the theme
\* value changes in no step other than such an invocation or a user toggle.
C14_ThemeOnlyByDispatcherOrToggle ==
    /\ last.themeCalls # <<>>
       => last.handler = "onClientTool" /\ last.arg.name = "switch_theme"
    /\ \A i \in DOMAIN last.themeCalls : last.themeCalls[i] \in ColorSchemes
    /\ theme # last.themeBefore
       => \/ last.handler = "toggle"
          \/ /\ last.handler = "onClientTool"
             /\ last.arg.name = "switch_theme"
             /\ last.themeCalls = <<theme>>
    /\ theme \in ColorSchemes

C14_Witness ==
    /\ SwitchThemeWith(Str("light"))
    /\ last.themeBefore = "dark"
    /\ last.themeCalls = <<"light">>
    /\ theme = "light"

\* C15: a response-end event makes exactly one onResponseEnd() call, with an
\* empty argument list, and no step of another kind makes one; handling the
\* event calls neither setError nor onThemeRequest nor sendCustomAction and
\* leaves the error state and the theme as they were.
C15_ResponseEndForwardedOnce ==
    /\ last.handler = "onResponseEnd"
       => /\ last.endCalls = << <<>> >>
          /\ last.sendCalls = <<>>
          /\ last.themeCalls = <<>>
          /\ last.setErrorCalls = <<>>
          /\ NoStateChange
    /\ last.handler # "onResponseEnd" => last.endCalls = <<>>

C15_Witness ==
    /\ last.handler = "onResponseEnd"
    /\ Len(last.endCalls) = 1
    /\ last.endCalls[1] = <<>>
    /\ error = Str("timeout")
    /\ inflight # <<>>

\* C16: diagnostic logging has no behavioural effect: after the same
\* sequence of events the build with the other value of isDev has returned
\* the same result, made the same onThemeRequest, sendCustomAction, setError
\* and onResponseEnd calls, and holds the same handle, error state, theme and
\* pending forward calls; only its console output may differ.
C16_LoggingHasNoEffect ==
    /\ twin.result = last.result
    /\ twin.themeCalls = last.themeCalls
    /\ twin.sendCalls = last.sendCalls
    /\ twin.setErrorCalls = last.setErrorCalls
    /\ twin.endCalls = last.endCalls
    /\ twin.ref = chatkitRef
    /\ twin.error = error
    /\ twin.theme = theme
    /\ twin.nSent = nSent
    /\ twin.inflight = inflight

C16_Witness ==
    /\ SwitchThemeWith(Str("dark"))
    /\ Len(last.log) # Len(twin.log)
    /\ last.themeCalls = <<"dark">>
    /\ twin.themeCalls = <<"dark">>
    /\ twin.result = Fulfilled(ToolResult(TRUE))

\* C17: forward calls may overlap.  While forward calls are awaited the
\* bridge still takes tool-invocation, error and action events; after any
\* interleaving the number of sendCustomAction calls made equals the number
\* of whitelisted actions received while the handle was stored, and the call
\* such an action adds to the awaited ones carries its own action and
\* widget-item id.
C17_OverlappingForwards ==
    /\ nSent = nEligible
    /\ Len(inflight) <= nSent
    /\ inflight # <<>>
       => ENABLED ClientTool /\ ENABLED ErrorEvent /\ ENABLED WidgetAction
    /\ ( /\ last.handler = "onAction"
         /\ last.ref # "null"
         /\ last.arg.type \in Whitelist )
       => /\ inflight # <<>>
          /\ inflight[Len(inflight)] =
                 [action |-> last.arg, itemId |-> last.item.id]

C17_Witness ==
    /\ last.handler = "onClientTool"
    /\ last.themeCalls = <<"dark">>
    /\ Len(inflight) = 2
    /\ inflight[1] = [action |-> [type |-> "quiz.submit",
                                  payload |-> Obj("answers:1,2,3")],
                      itemId |-> "w1"]
    /\ inflight[2] = [action |-> [type |-> "quiz.reset", payload |-> Undefined],
                      itemId |-> "w2"]
    /\ nSent = 2
    /\ nEligible = 2

\* C18: the session handle is monotonic: no step takes a stored handle back
\* to null; the handle is null only before the first render has built the
\* session, when no options have been built and no error is stored, so the
\* router's "not initialized" path runs only from Uninitialized.
C18_HandleMonotonic ==
    /\ last.ref = "chatkit" => chatkitRef = "chatkit"
    /\ chatkitRef = "null" => options = NoValue /\ error = JsNull
    /\ ( /\ last.handler = "onAction"
         /\ last.log = <<Entry("warn", "ChatKit not initialized", <<>>)>> )
       => /\ last.ref = "null"
          /\ last.errorBefore = JsNull
          /\ options = NoValue

C18_Witness ==
    /\ last.handler = "toggle"
    /\ last.ref = "chatkit"
    /\ chatkitRef = "chatkit"
    /\ error = Str("boom")
    /\ options # NoValue

====
